---------------------------- MODULE Spec2Model ----------------------------
(***************************************************************************)
(* A model of karkas2.py: the thermo-hydraulic transform main(), the       *)
(* friction-factor routine with its regime branch and refinement loop, and *)
(* the power sweep plot_velocity_vs_heating().                             *)
(*                                                                         *)
(* Numbers.  A Python number is modelled as a record                       *)
(*     [k, s, m, np]                                                       *)
(* k  : "fin" (finite), "inf" or "nan"      (the IEEE-754 class)           *)
(* s  : 1 or -1                             (the sign bit; zeros are signed)*)
(* m  : the magnitude in units of 1/One     (fixed point, three decimals)  *)
(* np : TRUE for a numpy scalar (np.int64 / np.float64), FALSE for a       *)
(*      built-in int / float.  The two differ in what a division by zero   *)
(*      does: a built-in raises ZeroDivisionError, numpy returns inf / nan.*)
(* A raised exception is the record [k |-> "err", exc, msg]; every         *)
(* arithmetic operator passes the exception of its leftmost raising        *)
(* operand on, as Python's left-to-right evaluation does.                  *)
(* Magnitudes are approximate (fixed point); class, sign and zero-ness     *)
(* follow IEEE-754: a product or quotient of non-zero finite numbers is    *)
(* never rounded to zero.                                                  *)
(***************************************************************************)
EXTENDS Integers, Sequences, FiniteSets, TLC

\* The fixed-point unit: 1.0 is One, 0.001 is 1.
One == 10 * 10 * 10

\* ------------------------------------------------------------------------
\* Fixed-point arithmetic on magnitudes (naturals in units of 1/One).

\* round(a * b / One), computed without leaving the 32-bit range
MulM(a, b) ==
    LET ah == a \div One
        al == a % One
        bh == b \div One
        bl == b % One
    IN  ah * bh * One + ah * bl + al * bh + ((al * bl + One \div 2) \div One)

\* round(a * One / b), b > 0
DivM(a, b) ==
    LET q == a \div b
        r == a % b
    IN  q * One + ((r * One + b \div 2) \div b)

\* a product / quotient of non-zero magnitudes is non-zero (no underflow)
NoUnderflow(m) == IF m = 0 THEN 1 ELSE m

RECURSIVE ISqrtFrom(_, _, _)
\* the largest r in lo..hi with r * r <= n
ISqrtFrom(n, lo, hi) ==
    IF lo >= hi THEN lo
    ELSE LET mid == (lo + hi + 1) \div 2
         IN  IF mid * mid <= n THEN ISqrtFrom(n, mid, hi)
                               ELSE ISqrtFrom(n, lo, mid - 1)

ISqrt(n) == ISqrtFrom(n, 0, 46340)

\* sqrt of a magnitude: isqrt(x * One)
SqrtM(x) ==
    IF x = 0 THEN 0
    ELSE IF x < 2000 * One THEN NoUnderflow(ISqrt(x * One))
    ELSE ISqrt(x \div 10) * 100

RECURSIVE ExpTaylor(_, _, _, _)
\* sum_{i >= n} x^i / i!  given term = x^n / n!, for 0 <= x < One
ExpTaylor(x, term, n, acc) ==
    IF term = 0 \/ n > 12 THEN acc
    ELSE ExpTaylor(x, MulM(term, x) \div (n + 1), n + 1, acc + term)

RECURSIVE ExpInt(_)
\* e^n for a natural n, in fixed point
ExpInt(n) == IF n = 0 THEN One ELSE MulM(ExpInt(n - 1), 2718)

\* e^x for a magnitude x (x >= 0)
ExpPosM(x) == MulM(ExpInt(x \div One), ExpTaylor(x % One, One, 0, 0))

RECURSIVE LnReduce(_, _)
\* <<m, k>> with x = m * 2^k and One <= m < 2 * One
LnReduce(x, k) ==
    IF x >= 2 * One THEN LnReduce((x + 1) \div 2, k + 1)
    ELSE IF x < One THEN LnReduce(x * 2, k - 1)
    ELSE <<x, k>>

\* ln(x) as a signed fixed-point integer, x > 0
LnS(x) ==
    LET mk == LnReduce(x, 0)
        m  == mk[1]
        z  == DivM(m - One, m + One)
        z2 == MulM(z, z)
        z3 == MulM(z2, z)
        z5 == MulM(z3, z2)
        z7 == MulM(z5, z2)
    IN  mk[2] * 693 + 2 * (z + z3 \div 3 + z5 \div 5 + z7 \div 7)

Abs(i) == IF i < 0 THEN -i ELSE i
Sgn(i) == IF i < 0 THEN -1 ELSE 1

\* ------------------------------------------------------------------------
\* Python numbers and exceptions.

Fin(s, m, np) == [k |-> "fin", s |-> s, m |-> m, np |-> np]
Inf(s, np)    == [k |-> "inf", s |-> s, m |-> 0, np |-> np]
NaN(np)       == [k |-> "nan", s |-> 1, m |-> 0, np |-> np]
Err(exc, msg) == [k |-> "err", exc |-> exc, msg |-> msg]

\* a built-in literal / dict value of v/One, and a numpy scalar of v/One
Py(v) == Fin(Sgn(v), Abs(v), FALSE)
Np(v) == Fin(Sgn(v), Abs(v), TRUE)

IsErr(a)  == a.k = "err"
IsNaN(a)  == a.k = "nan"
IsInf(a)  == a.k = "inf"
IsFin(a)  == a.k = "fin"
IsZero(a) == a.k = "fin" /\ a.m = 0
\* the signed integer of a finite number
Signed(a) == a.s * a.m

\* Python's ==, < and >= on numbers (every comparison with nan is False)
Eq(a, b) ==
    /\ ~IsNaN(a) /\ ~IsNaN(b)
    /\ a.k = b.k
    /\ IF IsInf(a) THEN a.s = b.s ELSE Signed(a) = Signed(b)

Lt(a, b) ==
    /\ ~IsNaN(a) /\ ~IsNaN(b)
    /\ CASE IsInf(a) /\ IsInf(b) -> a.s < b.s
         [] IsInf(a) -> a.s = -1
         [] IsInf(b) -> b.s = 1
         [] OTHER    -> Signed(a) < Signed(b)

Ge(a, b) == ~IsNaN(a) /\ ~IsNaN(b) /\ ~Lt(a, b)

\* a + b
Add(a, b) ==
    IF IsErr(a) THEN a ELSE IF IsErr(b) THEN b ELSE
    LET np == a.np \/ b.np IN
    CASE IsNaN(a) \/ IsNaN(b) -> NaN(np)
      [] IsInf(a) /\ IsInf(b) -> IF a.s = b.s THEN Inf(a.s, np) ELSE NaN(np)
      [] IsInf(a) -> Inf(a.s, np)
      [] IsInf(b) -> Inf(b.s, np)
      [] OTHER ->
           LET v == Signed(a) + Signed(b)
           IN  IF v = 0
               THEN Fin(IF a.s = -1 /\ b.s = -1 THEN -1 ELSE 1, 0, np)
               ELSE Fin(Sgn(v), Abs(v), np)

\* -a
Neg(a) == IF IsErr(a) THEN a ELSE [a EXCEPT !.s = -a.s]

\* a - b
Sub(a, b) == Add(a, Neg(b))

\* a * b
Mul(a, b) ==
    IF IsErr(a) THEN a ELSE IF IsErr(b) THEN b ELSE
    LET np == a.np \/ b.np
        s  == a.s * b.s
    IN
    CASE IsNaN(a) \/ IsNaN(b) -> NaN(np)
      [] IsInf(a) \/ IsInf(b) ->
           IF IsZero(a) \/ IsZero(b) THEN NaN(np) ELSE Inf(s, np)
      [] OTHER ->
           IF a.m = 0 \/ b.m = 0 THEN Fin(s, 0, np)
           ELSE Fin(s, NoUnderflow(MulM(a.m, b.m)), np)

\* a / b : a built-in division by zero raises, a numpy one returns inf / nan
Div(a, b) ==
    IF IsErr(a) THEN a ELSE IF IsErr(b) THEN b ELSE
    LET np == a.np \/ b.np
        s  == a.s * b.s
    IN
    CASE IsZero(b) ->
           IF ~np THEN Err("ZeroDivisionError", "float division by zero")
           ELSE IF IsNaN(a) \/ IsZero(a) THEN NaN(np)
           ELSE Inf(s, np)
      [] IsNaN(a) \/ IsNaN(b) -> NaN(np)
      [] IsInf(a) -> IF IsInf(b) THEN NaN(np) ELSE Inf(s, np)
      [] IsInf(b) -> Fin(s, 0, np)
      [] OTHER ->
           IF a.m = 0 THEN Fin(s, 0, np)
           ELSE Fin(s, NoUnderflow(DivM(a.m, b.m)), np)

\* math.exp(a): a built-in float
Exp(a) ==
    IF IsErr(a) THEN a ELSE
    CASE IsNaN(a) -> NaN(FALSE)
      [] IsInf(a) -> IF a.s = 1 THEN Inf(1, FALSE) ELSE Fin(1, 0, FALSE)
      [] OTHER ->
           IF a.s = 1 /\ a.m > 709 * One
           THEN Err("OverflowError", "math range error")
           ELSE IF a.s = 1 THEN Fin(1, ExpPosM(a.m), FALSE)
           \* e^-7 < 0.001: the smallest positive magnitude from there on
           ELSE IF a.m >= 7 * One THEN Fin(1, 1, FALSE)
           ELSE Fin(1, NoUnderflow(DivM(One, ExpPosM(a.m))), FALSE)

\* math.log10(a): a built-in float; raises on a <= 0
Log10(a) ==
    IF IsErr(a) THEN a ELSE
    CASE IsNaN(a) -> NaN(FALSE)
      [] IsZero(a) \/ a.s = -1 -> Err("ValueError", "math domain error")
      [] IsInf(a) -> Inf(1, FALSE)
      [] OTHER ->
           LET l == LnS(a.m)
           IN  Fin(Sgn(l), DivM(Abs(l), 2303), FALSE)

\* math.sqrt(a): a built-in float; raises on a < 0 (sqrt(-0.0) is -0.0)
Sqrt(a) ==
    IF IsErr(a) THEN a ELSE
    CASE IsNaN(a) -> NaN(FALSE)
      [] IsZero(a) -> Fin(a.s, 0, FALSE)
      [] a.s = -1 -> Err("ValueError", "math domain error")
      [] IsInf(a) -> Inf(1, FALSE)
      [] OTHER -> Fin(1, SqrtM(a.m), FALSE)

\* a ** 0.9 for a > 0 (the only use, line 56, is guarded by re >= 4000)
Pow09(a) ==
    IF IsErr(a) THEN a ELSE
    CASE IsInf(a) /\ a.s = 1 -> Inf(1, a.np)
      [] IsFin(a) /\ a.s = 1 /\ a.m > 0 ->
           LET l == (LnS(a.m) * 9) \div 10
           IN  Fin(1, IF l >= 0 THEN ExpPosM(l)
                      ELSE NoUnderflow(DivM(One, ExpPosM(-l))), a.np)


\* ------------------------------------------------------------------------
\* The module-level constant and the pure functions of karkas2.py.

\* beta_viscosity = 0.02
beta_viscosity == Py(20)

\* math.pi * (diameter / 2) ** 2
calculate_pipe_area(diameter) ==
    LET r == Div(diameter, Py(2 * One))
    IN  Mul(Py(3142), Mul(r, r))

\* (density * velocity * diameter) / viscosity
calculate_reynolds_number(density, velocity, diameter, viscosity) ==
    Div(Mul(Mul(density, velocity), diameter), viscosity)

\* the loop of the turbulent branch runs range(10)
Iterations == 10

\* a refinement that reads the previous f, as Colebrook's implicit
\* equation does:  f = 1 / (-2 * log10(roughness / (3.7 * diameter)
\*                                     + 2.51 / (re * sqrt(f))))
ColebrookStepFixedPoint(f, roughness, diameter, re) ==
    Div(Py(One),
        Mul(Py(-2 * One),
            Log10(Add(Div(roughness, Mul(Py(3700), diameter)),
                      Div(Py(2510), Mul(re, Sqrt(f)))))))

\* the body of the refinement loop: the next f from the previous f
\*   f = 1 / (-2 * math.log10((roughness / (3.7 * diameter)) + (5.74 / (re**0.9))))
ColebrookStep(f, roughness, diameter, re) ==
    Div(Py(One),
        Mul(Py(-2 * One),
            Log10(Add(Div(roughness, Mul(Py(3700), diameter)),
                      Div(Py(5740), Pow09(re))))))

\* the three-way test of calculate_friction_factor: which return is taken
Regime(re) ==
    IF Lt(re, Py(2000 * One)) THEN "laminar"
    ELSE IF Ge(re, Py(4000 * One)) THEN "turbulent"
    ELSE "transitional"

\* delta_t = effective_power / (mass_flow_rate * heat_capacity)
calculate_temperature_change(power, efficiency, density, velocity, area, heat_capacity) ==
    LET mass_flow_rate  == Mul(Mul(density, velocity), area)
        effective_power == Mul(power, efficiency)
    IN  Div(effective_power, Mul(mass_flow_rate, heat_capacity))

\* initial_density * (1 - thermal_expansion * delta_t)
calculate_new_density(initial_density, thermal_expansion, delta_t) ==
    Mul(initial_density, Sub(Py(One), Mul(thermal_expansion, delta_t)))

\* initial_viscosity * math.exp(-beta * delta_t)
calculate_new_viscosity(initial_viscosity, beta, delta_t) ==
    Mul(initial_viscosity, Exp(Mul(Neg(beta), delta_t)))

\* a max velocity that takes the magnitude of the radicand
calculate_max_velocity_abs(dp, density, diameter, friction_factor) ==
    LET r == Div(Mul(Py(2 * One), dp), Mul(friction_factor, density))
    IN  Sqrt(IF IsErr(r) THEN r ELSE [r EXCEPT !.s = 1])

\* math.sqrt((2 * delta_pressure) / (friction_factor * density))
calculate_max_velocity(dp, density, diameter, friction_factor) ==
    Sqrt(Div(Mul(Py(2 * One), dp), Mul(friction_factor, density)))

\* a result dict that leaves new_viscosity out
ResultRecordShort(l) ==
    [delta_t             |-> l.delta_t,
     new_temperature     |-> l.new_temperature,
     new_density         |-> l.new_density,
     re_new              |-> l.re_new,
     friction_factor_new |-> l.friction_factor_new,
     max_velocity_new    |-> l.max_velocity_new]

\* the dict main returns (lines 148-156)
ResultRecord(l) ==
    [delta_t             |-> l.delta_t,
     new_temperature     |-> l.new_temperature,
     new_density         |-> l.new_density,
     new_viscosity       |-> l.new_viscosity,
     re_new              |-> l.re_new,
     friction_factor_new |-> l.friction_factor_new,
     max_velocity_new    |-> l.max_velocity_new]

\* ------------------------------------------------------------------------
\* Bounds of the model.

\* the number of threads of control; plot_velocity_vs_heating runs in one
NWorkers == 2
\* the longest power_range of a sweep
MaxPowers == 2

Workers == 1 .. NWorkers

\* ------------------------------------------------------------------------
\* State.

VARIABLES
    pipe,            \* the caller's dict pipe
    fluid,           \* the caller's dict fluid
    heater,          \* the caller's dict heater, shared by every invocation
    delta_pressure,  \* the scalar delta_pressure
    power_range,     \* per worker: the powers its loop iterates over
    idx,             \* per worker: how many powers the for loop has taken
    power,           \* per worker: the loop variable power
    velocities,      \* per worker: the list velocities
    ans,             \* per worker: what the last call returned or raised
    loc,             \* per worker: the local variables of main
    fr,              \* per worker: the frame of calculate_friction_factor
    mv,              \* per worker: the frame of calculate_max_velocity
    pc,              \* per worker: the line about to be executed
    calls,           \* per worker: the invocations of main so far, each
                     \* with the arguments as read and the dict returned
    heater0          \* the caller's heater dict as passed to the sweep

vars == <<pipe, fluid, heater, delta_pressure, power_range, idx, power,
          velocities, ans, loc, fr, mv, pc, calls, heater0>>

\* Python's None / an unbound local
None == [k |-> "none"]

NoLocals ==
    [diameter |-> None, length |-> None, roughness |-> None,
     initial_density |-> None, initial_viscosity |-> None,
     thermal_expansion |-> None, heat_capacity |-> None,
     initial_temperature |-> None, initial_speed |-> None,
     power |-> None, efficiency |-> None, area |-> None,
     delta_t |-> None, new_temperature |-> None, new_density |-> None,
     new_viscosity |-> None, re_initial |-> None, re_new |-> None,
     friction_factor_initial |-> None, friction_factor_new |-> None,
     max_velocity_initial |-> None, max_velocity_new |-> None]

NoFrame ==
    [re |-> None, roughness |-> None, diameter |-> None, f |-> None,
     it |-> 0, branch |-> "none", caller |-> "none"]

\* result: what the body returned or raised, None while it has not run
NoMvFrame ==
    [delta_pressure |-> None, density |-> None, diameter |-> None,
     friction_factor |-> None, caller |-> "none", result |-> None]

\* ------------------------------------------------------------------------
\* Steps.  pc[w] names the source line worker w executes next.

\* an uncaught exception e ends the run of worker w (nothing catches it)
Raise(w, e) ==
    /\ pc' = [pc EXCEPT ![w] = "raised"]
    /\ ans' = [ans EXCEPT ![w] = e]

\* the assignment  name = v  at line from, continuing at line to
Assign(w, from, to, name, v) ==
    /\ pc[w] = from
    /\ IF IsErr(v)
       THEN Raise(w, v) /\ UNCHANGED loc
       ELSE /\ pc' = [pc EXCEPT ![w] = to]
            /\ loc' = [loc EXCEPT ![w][name] = v]
            /\ UNCHANGED ans
    /\ UNCHANGED <<pipe, fluid, heater, delta_pressure, power_range, idx,
                   power, velocities, fr, mv, calls, heater0>>

\* for power in power_range: the next power (line 174)
SweepNext(w) ==
    /\ pc[w] = "L174"
    /\ idx[w] < Len(power_range[w])
    /\ power' = [power EXCEPT ![w] = power_range[w][idx[w] + 1]]
    /\ idx' = [idx EXCEPT ![w] = idx[w] + 1]
    /\ pc' = [pc EXCEPT ![w] = "L175"]
    /\ UNCHANGED <<pipe, fluid, heater, delta_pressure, power_range,
                   velocities, ans, loc, fr, mv, calls, heater0>>

\* the loop is exhausted (line 174); the plot (lines 180-187) is not modelled
SweepExit(w) ==
    /\ pc[w] = "L174"
    /\ idx[w] = Len(power_range[w])
    /\ pc' = [pc EXCEPT ![w] = "done"]
    /\ UNCHANGED <<pipe, fluid, heater, delta_pressure, power_range, idx,
                   power, velocities, ans, loc, fr, mv, calls, heater0>>

\* heater['power'] = power (line 175): a write to the caller's dict
SweepSetPower(w) ==
    /\ pc[w] = "L175"
    /\ heater' = [heater EXCEPT !.power = power[w]]
    /\ pc' = [pc EXCEPT ![w] = "L176"]
    /\ UNCHANGED <<pipe, fluid, delta_pressure, power_range, idx, power,
                   velocities, ans, loc, fr, mv, calls, heater0>>

\* ans = main(pipe, fluid, heater, delta_pressure) (line 176): the call, and
\* main's reads of its arguments into locals (lines 94-104)
MainEnter(w) ==
    /\ pc[w] = "L176"
    /\ loc' = [loc EXCEPT ![w] =
                 [NoLocals EXCEPT
                    !.diameter            = pipe.diam,
                    !.length              = pipe.length,
                    !.roughness           = pipe.roughness,
                    !.initial_density     = fluid.density,
                    !.initial_viscosity   = fluid.viscosity,
                    !.thermal_expansion   = fluid.thermal_expansion,
                    !.heat_capacity       = fluid.heat_capacity,
                    !.initial_temperature = fluid.temperature,
                    !.initial_speed       = fluid.speed,
                    !.power               = heater.power,
                    !.efficiency          = heater.efficiency]]
    /\ calls' = [calls EXCEPT ![w] =
                   Append(calls[w], [pipe |-> pipe, fluid |-> fluid,
                                     heater |-> heater,
                                     delta_pressure |-> delta_pressure,
                                     ans |-> None])]
    /\ pc' = [pc EXCEPT ![w] = "L107"]
    /\ UNCHANGED <<pipe, fluid, heater, delta_pressure, power_range, idx,
                   power, velocities, ans, fr, mv, heater0>>

\* line 107
MainArea(w) ==
    Assign(w, "L107", "L110", "area", calculate_pipe_area(loc[w].diameter))

\* line 110
MainDeltaT(w) ==
    Assign(w, "L110", "L111", "delta_t",
           calculate_temperature_change(
               loc[w].power, loc[w].efficiency, loc[w].initial_density,
               loc[w].initial_speed, loc[w].area, loc[w].heat_capacity))

\* line 111
MainNewTemperature(w) ==
    Assign(w, "L111", "L114", "new_temperature",
           Add(loc[w].initial_temperature, loc[w].delta_t))

\* line 114 written back into the caller's dict: fluid['density'] = ...
MainNewDensityInPlace(w) ==
    LET v == calculate_new_density(loc[w].initial_density,
                                   loc[w].thermal_expansion, loc[w].delta_t)
    IN  /\ pc[w] = "L114"
        /\ IF IsErr(v)
           THEN Raise(w, v) /\ UNCHANGED <<loc, fluid>>
           ELSE /\ pc' = [pc EXCEPT ![w] = "L117"]
                /\ loc' = [loc EXCEPT ![w].new_density = v]
                /\ fluid' = [fluid EXCEPT !.density = v]
                /\ UNCHANGED ans
        /\ UNCHANGED <<pipe, heater, delta_pressure, power_range, idx,
                       power, velocities, fr, mv, calls, heater0>>

\* line 114
MainNewDensity(w) ==
    Assign(w, "L114", "L117", "new_density",
           calculate_new_density(loc[w].initial_density,
                                 loc[w].thermal_expansion, loc[w].delta_t))

\* line 117
MainNewViscosity(w) ==
    Assign(w, "L117", "L120", "new_viscosity",
           calculate_new_viscosity(loc[w].initial_viscosity, beta_viscosity,
                                   loc[w].delta_t))

\* line 120
MainReInitial(w) ==
    Assign(w, "L120", "L121", "re_initial",
           calculate_reynolds_number(loc[w].initial_density,
                                     loc[w].initial_speed, loc[w].diameter,
                                     loc[w].initial_viscosity))

\* line 121 with the initial viscosity in place of the new one
MainReNewStale(w) ==
    Assign(w, "L121", "L124", "re_new",
           calculate_reynolds_number(loc[w].new_density, loc[w].initial_speed,
                                     loc[w].diameter,
                                     loc[w].initial_viscosity))

\* line 121
MainReNew(w) ==
    Assign(w, "L121", "L124", "re_new",
           calculate_reynolds_number(loc[w].new_density, loc[w].initial_speed,
                                     loc[w].diameter, loc[w].new_viscosity))

\* a call of calculate_friction_factor(re, roughness, diameter) at line from
FrictionCall(w, from, caller, re) ==
    /\ pc[w] = from
    /\ fr' = [fr EXCEPT ![w] =
                [re |-> re, roughness |-> loc[w].roughness,
                 diameter |-> loc[w].diameter, f |-> None, it |-> 0,
                 branch |-> "none", caller |-> caller]]
    /\ pc' = [pc EXCEPT ![w] = "L50"]
    /\ UNCHANGED <<pipe, fluid, heater, delta_pressure, power_range, idx,
                   power, velocities, ans, loc, mv, calls, heater0>>

\* line 124
MainFrictionInitial(w) == FrictionCall(w, "L124", "initial", loc[w].re_initial)

\* line 125
MainFrictionNew(w) == FrictionCall(w, "L125", "new", loc[w].re_new)

\* calculate_friction_factor returns v (or raises it) through the return
\* statement of the given branch
FrictionReturn(w, v, branch) ==
    /\ fr' = [fr EXCEPT ![w].branch = branch]
    /\ IF IsErr(v) THEN Raise(w, v) /\ UNCHANGED loc
       ELSE CASE fr[w].caller = "initial" ->
                   /\ loc' = [loc EXCEPT ![w].friction_factor_initial = v]
                   /\ pc' = [pc EXCEPT ![w] = "L125"]
                   /\ UNCHANGED ans
              [] fr[w].caller = "new" ->
                   /\ loc' = [loc EXCEPT ![w].friction_factor_new = v]
                   /\ pc' = [pc EXCEPT ![w] = "L128"]
                   /\ UNCHANGED ans
              [] OTHER ->
                   /\ ans' = [ans EXCEPT ![w] = v]
                   /\ pc' = [pc EXCEPT ![w] = "returned"]
                   /\ UNCHANGED loc
    /\ UNCHANGED <<pipe, fluid, heater, delta_pressure, power_range, idx,
                   power, velocities, mv, calls, heater0>>

\* if re < 2000: return 64 / re (lines 50-51)
FrictionLaminar(w) ==
    /\ pc[w] = "L50"
    /\ Regime(fr[w].re) = "laminar"
    /\ FrictionReturn(w, Div(Py(64 * One), fr[w].re), "laminar")

\* elif re >= 4000: f = 0.02 (lines 52-54)
FrictionTurbulent(w) ==
    /\ pc[w] = "L50"
    /\ Regime(fr[w].re) = "turbulent"
    /\ fr' = [fr EXCEPT ![w].f = Py(20), ![w].branch = "turbulent"]
    /\ pc' = [pc EXCEPT ![w] = "L55"]
    /\ UNCHANGED <<pipe, fluid, heater, delta_pressure, power_range, idx,
                   power, velocities, ans, loc, mv, calls, heater0>>

\* else: return 0.5 (lines 58-60)
FrictionTransitional(w) ==
    /\ pc[w] = "L50"
    /\ Regime(fr[w].re) = "transitional"
    /\ FrictionReturn(w, Py(One \div 2), "transitional")

\* one pass of  for _ in range(10): f = ...  (lines 55-56)
FrictionIterate(w) ==
    /\ pc[w] = "L55"
    /\ fr[w].it < Iterations
    /\ LET f == ColebrookStep(fr[w].f, fr[w].roughness, fr[w].diameter, fr[w].re)
       IN  IF IsErr(f)
           THEN Raise(w, f) /\ UNCHANGED fr
           ELSE /\ fr' = [fr EXCEPT ![w].f = f, ![w].it = fr[w].it + 1]
                /\ UNCHANGED <<pc, ans>>
    /\ UNCHANGED <<pipe, fluid, heater, delta_pressure, power_range, idx,
                   power, velocities, loc, mv, calls, heater0>>

\* the loop is exhausted: return f (line 57)
FrictionLoopExit(w) ==
    /\ pc[w] = "L55"
    /\ fr[w].it = Iterations
    /\ FrictionReturn(w, fr[w].f, "turbulent")

\* a call of calculate_max_velocity(delta_pressure, density, diameter,
\* friction_factor) at line from
MaxVelocityCall(w, from, caller, density, friction_factor) ==
    /\ pc[w] = from
    /\ mv' = [mv EXCEPT ![w] =
                [delta_pressure |-> delta_pressure, density |-> density,
                 diameter |-> loc[w].diameter,
                 friction_factor |-> friction_factor, caller |-> caller,
                 result |-> None]]
    /\ pc' = [pc EXCEPT ![w] = "L87"]
    /\ UNCHANGED <<pipe, fluid, heater, delta_pressure, power_range, idx,
                   power, velocities, ans, loc, fr, calls, heater0>>

\* lines 128-129: the call
MainMaxVelocityInitial(w) ==
    MaxVelocityCall(w, "L128", "initial", loc[w].initial_density,
                    loc[w].friction_factor_initial)

\* line 130: the call
MainMaxVelocityNew(w) ==
    MaxVelocityCall(w, "L130", "new", loc[w].new_density,
                    loc[w].friction_factor_new)

\* what the caller does with the value v calculate_max_velocity returned:
\* main divides it by 10 and binds the quotient (lines 128-130)
MaxVelocityReturn(w, v) ==
    /\ mv' = [mv EXCEPT ![w].result = v]
    /\ IF IsErr(v) THEN Raise(w, v) /\ UNCHANGED loc
       ELSE CASE mv[w].caller = "initial" ->
                   /\ loc' = [loc EXCEPT ![w].max_velocity_initial =
                                              Div(v, Py(10 * One))]
                   /\ pc' = [pc EXCEPT ![w] = "L130"]
                   /\ UNCHANGED ans
              [] mv[w].caller = "new" ->
                   /\ loc' = [loc EXCEPT ![w].max_velocity_new =
                                              Div(v, Py(10 * One))]
                   /\ pc' = [pc EXCEPT ![w] = "L133"]
                   /\ UNCHANGED ans
              [] OTHER ->
                   /\ ans' = [ans EXCEPT ![w] = v]
                   /\ pc' = [pc EXCEPT ![w] = "returned"]
                   /\ UNCHANGED loc
    /\ UNCHANGED <<pipe, fluid, heater, delta_pressure, power_range, idx,
                   power, velocities, fr, calls, heater0>>

\* return math.sqrt((2 * delta_pressure) / (friction_factor * density))
\* (line 87)
MaxVelocityBody(w) ==
    /\ pc[w] = "L87"
    /\ MaxVelocityReturn(w, calculate_max_velocity(
                                mv[w].delta_pressure, mv[w].density,
                                mv[w].diameter, mv[w].friction_factor))

\* the prints (lines 133-146, no effect on the state) and the return of the
\* result dict (lines 148-156) to line 176
MainReturn(w) ==
    /\ pc[w] = "L133"
    /\ ans' = [ans EXCEPT ![w] = ResultRecord(loc[w])]
    /\ calls' = [calls EXCEPT ![w][Len(calls[w])].ans = ResultRecord(loc[w])]
    /\ pc' = [pc EXCEPT ![w] = "L177"]
    /\ UNCHANGED <<pipe, fluid, heater, delta_pressure, power_range, idx,
                   power, velocities, loc, fr, mv, heater0>>

\* a sweep that collects the Reynolds number instead
CollectedReynolds(a) ==
    IF "re_new" \in DOMAIN a THEN a.re_new
    ELSE Err("KeyError", "re_new")

\* the value the sweep appends: ans['max_velocity_new']
Collected(a) ==
    IF "max_velocity_new" \in DOMAIN a THEN a.max_velocity_new
    ELSE Err("KeyError", "max_velocity_new")

\* velocities.append(ans['max_velocity_new']) (line 177)
SweepCollect(w) ==
    /\ pc[w] = "L177"
    /\ LET v == Collected(ans[w])
       IN  IF IsErr(v)
           THEN Raise(w, v) /\ UNCHANGED velocities
           ELSE /\ velocities' = [velocities EXCEPT ![w] = Append(velocities[w], v)]
                /\ pc' = [pc EXCEPT ![w] = "L174"]
                /\ UNCHANGED ans
    /\ UNCHANGED <<pipe, fluid, heater, delta_pressure, power_range, idx,
                   power, loc, fr, mv, calls, heater0>>

\* one step of worker w inside main (and the routines main calls)
MainStep(w) ==
    \/ MainEnter(w)
    \/ MainArea(w)
    \/ MainDeltaT(w)
    \/ MainNewTemperature(w)
    \/ MainNewDensity(w)
    \/ MainNewViscosity(w)
    \/ MainReInitial(w)
    \/ MainReNew(w)
    \/ MainFrictionInitial(w)
    \/ MainFrictionNew(w)
    \/ MainMaxVelocityInitial(w)
    \/ MainMaxVelocityNew(w)
    \/ MainReturn(w)

FrictionStep(w) ==
    \/ FrictionLaminar(w)
    \/ FrictionTurbulent(w)
    \/ FrictionTransitional(w)
    \/ FrictionIterate(w)
    \/ FrictionLoopExit(w)

MaxVelocityStep(w) == MaxVelocityBody(w)

SweepStep(w) ==
    \/ SweepNext(w)
    \/ SweepSetPower(w)
    \/ SweepCollect(w)
    \/ SweepExit(w)

\* ------------------------------------------------------------------------
\* Inputs.  Values are in units of 1/One; every set holds the value 0 the
\* functions divide by, next to values that reach each friction regime.

Diams       == {Py(0), Py(One)}
Roughs      == {Py(1)}
Densities   == {Py(0), Py(100 * One), Py(200 * One), Py(400 * One)}
Viscosities == {Py(0), Py(100)}
Expansions  == {Py(500)}
HeatCaps    == {Py(0), Py(One)}
Speeds      == {Py(0), Py(One)}
DeltaPs     == {Py(-50 * One), Py(50 * One)}
PowerValues == {0, 100 * One, 1000 * One}

\* the caller's dicts (lines 6-26), over the input sets
Pipes   == [diam : Diams, length : {Py(10 * One)}, roughness : Roughs]
Fluids  == [density : Densities, viscosity : Viscosities,
            thermal_expansion : Expansions, heat_capacity : HeatCaps,
            temperature : {Py(20 * One)}, speed : Speeds]
Heaters == [power : {Py(500 * One)}, efficiency : {Py(900)}]

\* the increasing power sequences of at most n values (np.arange is one),
\* as a Python list of ints (np = FALSE) or a numpy array (np = TRUE)
PowerRanges(n, np) ==
    LET raw == UNION {[1 .. k -> PowerValues] : k \in 0 .. n}
        inc == {s \in raw : \A i \in 1 .. Len(s) - 1 : s[i] < s[i + 1]}
    IN  {[i \in 1 .. Len(s) |-> Fin(1, s[i], np)] : s \in inc}

\* the frames of every worker before its first step
Idle ==
    /\ idx = [w \in Workers |-> 0]
    /\ power = [w \in Workers |-> None]
    /\ velocities = [w \in Workers |-> <<>>]
    /\ ans = [w \in Workers |-> None]
    /\ loc = [w \in Workers |-> NoLocals]
    /\ calls = [w \in Workers |-> <<>>]

\* plot_velocity_vs_heating(pipe, fluid, heater, delta_pressure, power_range)
\* is called once, by worker 1; velocities = [] (line 171) has run
Init ==
    /\ pipe \in Pipes
    /\ fluid \in Fluids
    /\ heater \in Heaters
    /\ delta_pressure \in DeltaPs
    /\ \E np \in BOOLEAN : \E ps \in PowerRanges(MaxPowers, np) :
          power_range = [w \in Workers |-> IF w = 1 THEN ps ELSE <<>>]
    /\ Idle
    /\ fr = [w \in Workers |-> NoFrame]
    /\ mv = [w \in Workers |-> NoMvFrame]
    /\ pc = [w \in Workers |-> IF w = 1 THEN "L174" ELSE "idle"]
    /\ heater0 = heater

Next ==
    \E w \in Workers :
        SweepStep(w) \/ MainStep(w) \/ FrictionStep(w) \/ MaxVelocityStep(w)

Spec == Init /\ [][Next]_vars

\* ------------------------------------------------------------------------
\* calculate_friction_factor called directly, over a range of arguments.

FrictionRes ==
    {Py(-1000 * One), Py(0), Py(1000 * One), Py(2000 * One - 1),
     Py(2000 * One), Py(3000 * One), Py(4000 * One - 1), Py(4000 * One),
     Py(5000 * One), Np(0), Np(4000 * One), NaN(TRUE)}
FrictionRoughs == {Py(0), Py(1), Py(37)}
FrictionDiams  == {Py(One \div 2), Py(One)}

InitFriction ==
    /\ pipe \in {p \in Pipes : p.diam = Py(One)}
    /\ fluid \in {f \in Fluids : /\ f.density = Py(100 * One)
                                 /\ f.viscosity = Py(100)
                                 /\ f.heat_capacity = Py(One)
                                 /\ f.speed = Py(One)}
    /\ heater \in Heaters
    /\ delta_pressure = Py(50 * One)
    /\ power_range = [w \in Workers |-> <<>>]
    /\ Idle
    /\ \E re \in FrictionRes, ro \in FrictionRoughs, d \in FrictionDiams :
          fr = [w \in Workers |->
                  IF w = 1
                  THEN [NoFrame EXCEPT !.re = re, !.roughness = ro,
                                       !.diameter = d, !.caller = "direct"]
                  ELSE NoFrame]
    /\ mv = [w \in Workers |-> NoMvFrame]
    /\ pc = [w \in Workers |-> IF w = 1 THEN "L50" ELSE "idle"]
    /\ heater0 = heater

NextFriction == \E w \in Workers : FrictionStep(w)

SpecFriction == InitFriction /\ [][NextFriction]_vars

\* ------------------------------------------------------------------------
\* calculate_max_velocity called directly, over a range of arguments, next
\* to its two calls from main.

MvDeltaPs   == {Py(-50 * One), Py(50 * One)}
MvDensities == {Py(-100 * One), Py(0), Py(100 * One)}
MvFrictions == {Py(-64), Py(0), Py(64), Py(One \div 2)}

InitMaxVelocity ==
    /\ pipe \in {p \in Pipes : p.diam = Py(One)}
    /\ fluid \in {f \in Fluids : /\ f.density = Py(100 * One)
                                 /\ f.viscosity = Py(100)
                                 /\ f.heat_capacity = Py(One)
                                 /\ f.speed = Py(One)}
    /\ heater \in Heaters
    /\ delta_pressure = Py(50 * One)
    /\ power_range = [w \in Workers |-> <<>>]
    /\ Idle
    /\ fr = [w \in Workers |-> NoFrame]
    /\ \E dp \in MvDeltaPs, d \in MvDensities, f \in MvFrictions :
          mv = [w \in Workers |->
                  IF w = 1
                  THEN [NoMvFrame EXCEPT !.delta_pressure = dp,
                                         !.density = d,
                                         !.diameter = Py(One),
                                         !.friction_factor = f,
                                         !.caller = "direct"]
                  ELSE NoMvFrame]
    /\ pc = [w \in Workers |-> IF w = 1 THEN "L87" ELSE "idle"]
    /\ heater0 = heater

SpecMaxVelocity == (Init \/ InitMaxVelocity) /\ [][Next]_vars

\* ------------------------------------------------------------------------
\* The per-power steps of the sweep run by several workers at once, as
\* threads over the same dicts: each worker runs the loop of lines 174-177
\* over its own powers, with its own locals.

InitParallel ==
    /\ pipe \in {p \in Pipes : p.diam = Py(One)}
    /\ fluid \in {f \in Fluids : /\ f.density = Py(400 * One)
                                 /\ f.viscosity = Py(100)
                                 /\ f.heat_capacity = Py(One)
                                 /\ f.speed = Py(One)}
    /\ heater \in Heaters
    /\ delta_pressure = Py(50 * One)
    /\ power_range \in [Workers -> {<<Py(p)>> : p \in PowerValues}]
    /\ Idle
    /\ fr = [w \in Workers |-> NoFrame]
    /\ mv = [w \in Workers |-> NoMvFrame]
    /\ pc = [w \in Workers |-> "L174"]
    /\ heater0 = heater

SpecParallel == InitParallel /\ [][Next]_vars


\* ------------------------------------------------------------------------
\* Properties.

\* the lines of main, of the routines it calls, and of the call itself
MainPcs ==
    {"L176", "L107", "L110", "L111", "L114", "L117", "L120", "L121", "L124",
     "L125", "L128", "L130", "L133", "L50", "L55", "L87"}

\* worker w takes this step
Stepped(w) ==
    <<pc[w], loc[w], fr[w], mv[w], ans[w], calls[w]>>' #
    <<pc[w], loc[w], fr[w], mv[w], ans[w], calls[w]>>

Assigned(x) == x # None

\* C1: every step of a call of main, from the call to its return or to the
\* exception that ends it, leaves the three input dicts pipe, fluid and
\* heater as they were; the new values live in main's locals and in the
\* returned dict only.
C1_MainLeavesInputsUnchanged ==
    [][\A w \in Workers :
          (pc[w] \in MainPcs /\ Stepped(w)) =>
              (pipe' = pipe /\ fluid' = fluid /\ heater' = heater)]_vars

\* a call that returned a new density different from the input's
C1_Witness ==
    \E w \in Workers :
        /\ pc[w] = "L177"
        /\ ~Eq(ans[w].new_density, fluid.density)
        /\ fluid.density = calls[w][Len(calls[w])].fluid.density

SevenQuantities ==
    {"delta_t", "new_temperature", "new_density", "new_viscosity", "re_new",
     "friction_factor_new", "max_velocity_new"}

\* C2 as claimed: every successful call returns a record that holds all ten
\* quantities, the three initial ones (Reynolds number, friction factor,
\* max velocity) among them.
C2_TenQuantities ==
    \A w \in Workers :
        pc[w] = "L177" =>
            /\ SevenQuantities \subseteq DOMAIN ans[w]
            /\ {"re_initial", "reynolds_initial"} \cap DOMAIN ans[w] # {}
            /\ {"friction_factor_initial", "friction_initial"}
                   \cap DOMAIN ans[w] # {}
            /\ "max_velocity_initial" \in DOMAIN ans[w]

\* C2 as amended: every successful call returns a record of exactly seven
\* quantities (delta_t, new_temperature, new_density, new_viscosity, re_new,
\* friction_factor_new, max_velocity_new), each the local of that name; the
\* initial Reynolds number, friction factor and max velocity are computed
\* but are not in the record.
C2_SevenQuantities ==
    \A w \in Workers :
        pc[w] = "L177" =>
            /\ DOMAIN ans[w] = SevenQuantities
            /\ \A q \in SevenQuantities : ans[w][q] = loc[w][q]
            /\ Assigned(loc[w].re_initial)
            /\ Assigned(loc[w].friction_factor_initial)
            /\ Assigned(loc[w].max_velocity_initial)

\* a successful call with a finite result
C2_Witness ==
    \E w \in Workers :
        /\ pc[w] = "L177"
        /\ IsFin(ans[w].max_velocity_new)
        /\ ~Eq(ans[w].new_viscosity, fluid.viscosity)

\* C3: the sweep invokes main once per power, in the order of the sequence,
\* with that power in the heater dict and every other argument as passed;
\* the i-th velocity collected is the max_velocity_new that the i-th
\* invocation returned; at the head of the loop the number of velocities
\* equals the number of powers taken, and a sweep that ends has collected as
\* many velocities as there are powers.
C3_SweepCollectsInOrder ==
    \A w \in Workers :
        /\ Len(velocities[w]) <= idx[w]
        /\ idx[w] <= Len(velocities[w]) + 1
        /\ Len(calls[w]) <= idx[w]
        /\ pc[w] \in {"L174", "done"} =>
               /\ Len(velocities[w]) = idx[w]
               /\ Len(calls[w]) = idx[w]
        /\ pc[w] = "done" => Len(velocities[w]) = Len(power_range[w])
        /\ \A i \in 1 .. Len(calls[w]) :
               /\ calls[w][i].heater =
                      [heater0 EXCEPT !.power = power_range[w][i]]
               /\ calls[w][i].pipe = pipe
               /\ calls[w][i].fluid = fluid
               /\ calls[w][i].delta_pressure = delta_pressure
        /\ \A i \in 1 .. Len(velocities[w]) :
               velocities[w][i] = calls[w][i].ans.max_velocity_new

\* a sweep over two or more powers that ran to its end
C3_Witness ==
    \E w \in Workers :
        /\ pc[w] = "done"
        /\ Len(power_range[w]) >= 2
        /\ Len(velocities[w]) = Len(power_range[w])
        /\ ~Eq(velocities[w][1], velocities[w][2])

\* C4 as claimed: with two or more workers running the per-power steps at
\* once, every invocation of main computes from its worker's own power, so
\* every velocity collected belongs to that power, and the caller's heater
\* dict is after the sweep what it was before it.
C4_ParallelIndependent ==
    /\ \A w \in Workers : \A i \in 1 .. Len(calls[w]) :
           calls[w][i].heater.power = power_range[w][i]
    /\ (\A w \in Workers : pc[w] = "done") => heater = heater0

\* the names an error would have to carry to identify the violating input
InputNames ==
    {"diam", "length", "roughness", "density", "viscosity",
     "thermal_expansion", "heat_capacity", "temperature", "speed", "power",
     "efficiency", "delta_pressure", "area", "re", "friction_factor"}

\* C5 as claimed: an arithmetic error aborts the invocation with an error
\* that identifies the violating input; no call returns a record holding an
\* infinity or a NaN, and no velocity collected by a sweep is one.
C5_ErrorsFailFast ==
    \A w \in Workers :
        /\ pc[w] = "raised" =>
               /\ ans[w].exc = "PreconditionError"
               /\ ans[w].msg \in InputNames
        /\ pc[w] = "L177" => \A q \in DOMAIN ans[w] : IsFin(ans[w][q])
        /\ \A i \in 1 .. Len(velocities[w]) : IsFin(velocities[w][i])

\* C6 as claimed: the routine takes exactly one of three branches for every
\* Re: Re < 2000 evaluates 64/Re and fails at Re = 0; 2000 <= Re < 4000
\* returns exactly 0.5; Re >= 4000 returns the correlation value.
C6_ThreeRegimes ==
    \A w \in Workers :
        fr[w].branch # "none" =>
            LET re == fr[w].re
                b  == fr[w].branch
            IN  /\ (b = "laminar") = Lt(re, Py(2000 * One))
                /\ (b = "transitional") =
                       (Ge(re, Py(2000 * One)) /\ Lt(re, Py(4000 * One)))
                /\ (b = "turbulent") = Ge(re, Py(4000 * One))
                /\ (b = "laminar" /\ IsZero(re)) =>
                       (pc[w] = "raised" /\ ans[w].exc = "ZeroDivisionError")
                /\ (b = "laminar" /\ ~IsZero(re)) =>
                       (pc[w] = "returned" /\ ans[w] = Div(Py(64 * One), re))
                /\ (b = "transitional") =>
                       (pc[w] = "returned" /\ ans[w] = Py(One \div 2))
                /\ (b = "turbulent" /\ pc[w] = "returned") =>
                       ans[w] = ColebrookStep(Py(20), fr[w].roughness,
                                              fr[w].diameter, re)

\* starting values the loop could have been given
StartValues == {Py(20), Py(5), Py(One)}

FrictionOf(re, roughness, diameter) ==
    CASE Regime(re) = "laminar"   -> Div(Py(64 * One), re)
      [] Regime(re) = "turbulent" -> ColebrookStep(Py(20), roughness, diameter, re)
      [] OTHER                    -> Py(One \div 2)

\* C8: main computes each local from the stated arguments, after they are
\* bound: delta_t from the initial density and speed; re_new from
\* (new_density, initial_speed, diameter, new_viscosity); friction_new from
\* re_new; max_velocity_new from (delta_pressure, new_density, friction_new)
\* divided by 10; and the initial Reynolds number, friction factor and max
\* velocity from pipe, fluid and delta_pressure alone, the heater not among
\* their arguments.
C8_DependencyOrder ==
    \A w \in Workers :
        LET l == loc[w] IN
        /\ Assigned(l.delta_t) =>
               /\ Assigned(l.area)
               /\ l.delta_t = calculate_temperature_change(
                                  l.power, l.efficiency, l.initial_density,
                                  l.initial_speed, l.area, l.heat_capacity)
        /\ Assigned(l.new_density) =>
               /\ Assigned(l.delta_t)
               /\ l.new_density = calculate_new_density(
                                      l.initial_density, l.thermal_expansion,
                                      l.delta_t)
        /\ Assigned(l.new_viscosity) =>
               /\ Assigned(l.delta_t)
               /\ l.new_viscosity = calculate_new_viscosity(
                                        l.initial_viscosity, beta_viscosity,
                                        l.delta_t)
        /\ Assigned(l.re_initial) =>
               l.re_initial = calculate_reynolds_number(
                                  fluid.density, fluid.speed, pipe.diam,
                                  fluid.viscosity)
        /\ Assigned(l.re_new) =>
               /\ Assigned(l.new_density) /\ Assigned(l.new_viscosity)
               /\ l.re_new = calculate_reynolds_number(
                                 l.new_density, l.initial_speed, l.diameter,
                                 l.new_viscosity)
        /\ Assigned(l.friction_factor_initial) =>
               /\ Assigned(l.re_initial)
               /\ l.friction_factor_initial =
                      FrictionOf(l.re_initial, pipe.roughness, pipe.diam)
        /\ Assigned(l.friction_factor_new) =>
               /\ Assigned(l.re_new)
               /\ l.friction_factor_new =
                      FrictionOf(l.re_new, l.roughness, l.diameter)
        /\ Assigned(l.max_velocity_initial) =>
               /\ Assigned(l.friction_factor_initial)
               /\ l.max_velocity_initial =
                      Div(calculate_max_velocity(
                              delta_pressure, fluid.density, pipe.diam,
                              l.friction_factor_initial), Py(10 * One))
        /\ Assigned(l.max_velocity_new) =>
               /\ Assigned(l.friction_factor_new)
               /\ l.max_velocity_new =
                      Div(calculate_max_velocity(
                              delta_pressure, l.new_density, l.diameter,
                              l.friction_factor_new), Py(10 * One))

\* a call that got to its end with a new state different from the initial
C8_Witness ==
    \E w \in Workers :
        /\ pc[w] = "L133"
        /\ IsFin(loc[w].re_new)
        /\ ~Eq(loc[w].re_new, loc[w].re_initial)
        /\ ~Eq(loc[w].new_viscosity, loc[w].initial_viscosity)
        /\ ~Eq(loc[w].max_velocity_new, loc[w].max_velocity_initial)

\* C9 as claimed: a call with power = 0 that returns has delta_t = 0, the
\* new temperature, density and viscosity equal to the initial ones, and so
\* Re_new, friction_new and max_velocity_new equal to their initial
\* counterparts; the sweep collects that velocity for power 0.
C9_ZeroPowerIdentity ==
    \A w \in Workers :
        LET l == loc[w] IN
        (pc[w] = "L177" /\ IsZero(l.power)) =>
            /\ IsZero(l.delta_t)
            /\ Eq(l.new_temperature, l.initial_temperature)
            /\ Eq(l.new_density, l.initial_density)
            /\ Eq(l.new_viscosity, l.initial_viscosity)
            /\ Eq(l.re_new, l.re_initial)
            /\ Eq(l.friction_factor_new, l.friction_factor_initial)
            /\ Eq(l.max_velocity_new, l.max_velocity_initial)
            /\ Eq(ans[w].max_velocity_new, l.max_velocity_initial)

\* the radicand of a call of calculate_max_velocity
Radicand(m) ==
    Div(Mul(Py(2 * One), m.delta_pressure),
        Mul(m.friction_factor, m.density))

Negative(x) == Lt(x, Py(0))
Positive(x) == Lt(Py(0), x)

\* the calls of calculate_max_velocity that ran, with friction_factor != 0
\* and density != 0
MvRan(w) ==
    /\ Assigned(mv[w].result)
    /\ ~IsZero(mv[w].friction_factor)
    /\ ~IsZero(mv[w].density)

\* C10 as claimed: for friction_factor != 0 and density != 0 the step fails
\* whenever the radicand is negative, and the radicand is negative whenever
\* delta_pressure or density is negative; in particular the computation of
\* max_velocity_new fails when heating has driven new_density below zero.
C10_NegativeFails ==
    \A w \in Workers :
        MvRan(w) =>
            /\ Negative(Radicand(mv[w])) => IsErr(mv[w].result)
            /\ (Negative(mv[w].delta_pressure) \/ Negative(mv[w].density)) =>
                   (Negative(Radicand(mv[w])) /\ IsErr(mv[w].result))

\* C10 as amended: for friction_factor != 0 and density != 0 the step fails
\* whenever the radicand is negative; the radicand is negative only when
\* delta_pressure is non-zero and its sign differs from the sign of
\* friction_factor * density, so a negative delta_pressure or density does
\* not by itself make the step fail; in particular, when heating has driven
\* new_density below zero (Re_new finite), friction_new is negative as
\* well, and for delta_pressure > 0 the radicand is positive and
\* max_velocity_new is computed as a number.
C10_RadicandSign ==
    \A w \in Workers :
        MvRan(w) =>
            LET m == mv[w] IN
            /\ Negative(Radicand(m)) =>
                   /\ IsErr(m.result)
                   /\ m.result.exc = "ValueError"
                   /\ ~IsZero(m.delta_pressure)
                   /\ m.delta_pressure.s # m.friction_factor.s * m.density.s
            /\ (m.caller = "new" /\ Negative(m.density) /\ IsFin(loc[w].re_new)) =>
                   /\ Negative(m.friction_factor)
                   /\ Positive(m.delta_pressure) =>
                          /\ Positive(Radicand(m))
                          /\ IsFin(m.result)

\* main has computed max_velocity_new as a number from a negative new_density
C10_Witness ==
    \E w \in Workers :
        /\ MvRan(w)
        /\ mv[w].caller = "new"
        /\ Negative(mv[w].density)
        /\ IsFin(mv[w].density)
        /\ IsFin(mv[w].result)
        /\ pc[w] = "L133"

=============================================================================
